---- MODULE Spec2Model ----
(***************************************************************************)
(* Benchmark aggregation and report baking (flyingrobots/echo, scripts/).  *)
(*                                                                         *)
(*   Spec        the aggregation session of scripts/bench_accumulate.py:   *)
(*               main, run_bench, extract_samples, the median table.       *)
(*   ReaderSpec  Spec, or the report of scripts/bench_report_local.py.     *)
(*   LoadSpec    scripts/bench_bake.py: load_estimate and the body of the  *)
(*               cell loop of bake_html, on one cell.                      *)
(*   SpliceSpec  scripts/bench_bake.py: the splice of the inline data      *)
(*               block into the template.                                  *)
(*   BakeSpec    scripts/bench_bake.py: main and bake_html as a whole.     *)
(*   BakeOrderSpec  BakeSpec on at most one estimates file, with weak      *)
(*               fairness on the steps of the process.                     *)
(*   RebakeSpec  the bake run again on the files the bake before left.     *)
(*                                                                         *)
(* A file is modelled by what the program can observe of it: absent, text  *)
(* that is not JSON, or the JSON value the text denotes.  A normalized     *)
(* sample t / i is kept as the exact rational in lowest terms; the         *)
(* rounding of Python's binary floats is not modelled.                     *)
(***************************************************************************)
EXTENDS Integers, Sequences, FiniteSets, TLC

\* ------------------------------------------------------------------ bounds

\* The model enumerates the first NumGroups groups and the first NumInputs
\* input sizes of the program's lists, and Runs repeated runs (10 in the code).
NumGroups == 2
NumInputs == 1
Runs == 2
\* The benchmark tool writes at most MaxWritten raw sample files in a session.
MaxWritten == 2
\* At most MaxEstimates estimates files exist when a report is baked.
MaxEstimates == 1
\* A template is at most MaxTplLen pieces of text long.
MaxTplLen == 3

\* The bake is run at most MaxBakes times in succession.
MaxBakes == 2

\* ------------------------------------------------------- the cell space

GROUPS == << "snapshot_hash", "scheduler_drain",
             "scheduler_drain/enqueue", "scheduler_drain/drain" >>

INPUTS == << 10, 100, 1000, 3000, 10000, 30000 >>

Min(a, b) == IF a < b THEN a ELSE b

Groups == SubSeq(GROUPS, 1, Min(NumGroups, Len(GROUPS)))

Inputs == SubSeq(INPUTS, 1, Min(NumInputs, Len(INPUTS)))

\* for group in GROUPS: for n in INPUTS: the cells in the order of the loops.
CellSeq ==
  [k \in 1..(Len(Groups) * Len(Inputs)) |->
     << Groups[((k - 1) \div Len(Inputs)) + 1], Inputs[((k - 1) % Len(Inputs)) + 1] >>]

Cells == { CellSeq[k] : k \in DOMAIN CellSeq }

\* ------------------------------------------------------------ JSON values

JNull == [j |-> "null"]
JNum(n) == [j |-> "num", n |-> n]
JList(e) == [j |-> "list", e |-> e]
JObj(f) == [j |-> "obj", f |-> f]

Absent == [t |-> "absent"]
Garbage == [t |-> "garbage"]
JsonText(v) == [t |-> "json", v |-> v]

\* json.loads(path.read_text()): the value, or JSONDecodeError.
json_loads(file) ==
  IF file.t = "json" THEN [exc |-> "none", v |-> file.v]
  ELSE [exc |-> "JSONDecodeError"]

\* obj[key] in Python: KeyError on a dict without the key, TypeError on a
\* list (a str index), a number or None.
GetItem(v, key) ==
  IF v.j = "obj"
  THEN IF key \in DOMAIN v.f THEN [exc |-> "none", v |-> v.f[key]]
       ELSE [exc |-> "KeyError"]
  ELSE [exc |-> "TypeError"]

\* len(x) in Python: TypeError on a number or None.
PyLen(v) ==
  CASE v.j = "list" -> [exc |-> "none", n |-> Len(v.e)]
    [] v.j = "obj" -> [exc |-> "none", n |-> Cardinality(DOMAIN v.f)]
    [] OTHER -> [exc |-> "TypeError"]

\* --------------------------------------------------------------- rationals

RECURSIVE Gcd(_, _)
Gcd(a, b) == IF b = 0 THEN a ELSE Gcd(b, a % b)

\* The rational n / d (d > 0) in lowest terms.
Rat(n, d) == LET g == Gcd(n, d) IN IF g = 0 THEN << 0, 1 >> ELSE << n \div g, d \div g >>

RatLe(p, q) == p[1] * q[2] <= q[1] * p[2]

RatLt(p, q) == p[1] * q[2] < q[1] * p[2]

\* [t / i for t, i in zip(times, iters, strict=True)] on sequences of equal
\* length: ZeroDivisionError on an iteration count of 0; iterating a dict
\* yields its keys, strings, which do not divide (TypeError).
ZipDiv(times, iters) ==
  IF times.j # "list" \/ iters.j # "list"
  THEN IF PyLen(times).n = 0 THEN [exc |-> "none", samples |-> << >>]
       ELSE [exc |-> "TypeError"]
  ELSE IF \E k \in 1..Len(iters.e) : iters.e[k] = 0
       THEN [exc |-> "ZeroDivisionError"]
       ELSE [exc |-> "none",
             samples |-> [k \in 1..Len(times.e) |-> Rat(times.e[k], iters.e[k])]]

\* ------------------------------------------- bench_accumulate.py: the reader

\* The except clauses of extract_samples: JSONDecodeError, KeyError and
\* ValueError print a diagnostic; any other exception leaves the function.
Handled(exc) ==
  CASE exc = "JSONDecodeError" -> [o |-> "diag", msg |-> "Error parsing JSON"]
    [] exc = "KeyError" -> [o |-> "diag", msg |-> "Missing key"]
    [] exc = "ValueError" -> [o |-> "diag", msg |-> "Value error reading"]
    [] OTHER -> [o |-> "raise", exc |-> exc]

\* The try block of extract_samples for a file that exists: a record's
\* samples, a diagnostic, or an exception that is not caught.
ParseSample(file) ==
  LET content == json_loads(file) IN
  IF content.exc # "none" THEN Handled(content.exc) ELSE
  LET iters == GetItem(content.v, "iters") IN
  IF iters.exc # "none" THEN Handled(iters.exc) ELSE
  LET times == GetItem(content.v, "times") IN
  IF times.exc # "none" THEN Handled(times.exc) ELSE
  LET lt == PyLen(times.v) IN
  IF lt.exc # "none" THEN Handled(lt.exc) ELSE
  LET li == PyLen(iters.v) IN
  IF li.exc # "none" THEN Handled(li.exc) ELSE
  IF lt.n # li.n THEN [o |-> "diag", msg |-> "Warning: times/iters length mismatch"] ELSE
  LET z == ZipDiv(times.v, iters.v) IN
  IF z.exc # "none" THEN Handled(z.exc)
  ELSE [o |-> "record", samples |-> z.samples]

\* One pass of the cell loop body: path.exists() first, then the try block.
ReadCell(file) == IF file.t = "absent" THEN [o |-> "skip"] ELSE ParseSample(file)

\* extract_samples(run_idx) from cell k on, over the raw files fs: the records
\* collected (data), the lines printed to stderr (err), the files opened
\* (reads), and the exception that ended the loop early, if any.
RECURSIVE ExtractFrom(_, _, _, _)
ExtractFrom(k, run_idx, fs, acc) ==
  IF k > Len(CellSeq) THEN acc ELSE
  LET cell == CellSeq[k]
      file == fs[cell].body
      r == ReadCell(file)
      seen == Append(acc.reads, [run |-> run_idx, cell |-> cell, file |-> file])
  IN CASE r.o = "skip" ->
            ExtractFrom(k + 1, run_idx, fs, [acc EXCEPT !.reads = seen])
       [] r.o = "diag" ->
            ExtractFrom(k + 1, run_idx, fs,
              [acc EXCEPT !.reads = seen,
                          !.err = Append(@, [run |-> run_idx, cell |-> cell, msg |-> r.msg])])
       [] r.o = "record" ->
            ExtractFrom(k + 1, run_idx, fs,
              [acc EXCEPT !.reads = seen,
                          !.data = Append(@, [group |-> cell[1], n |-> cell[2],
                                              run |-> run_idx, samples_ns |-> r.samples])])
       [] OTHER -> [acc EXCEPT !.reads = seen, !.exc = r.exc]

extract_samples(run_idx, fs) ==
  ExtractFrom(1, run_idx, fs, [data |-> << >>, err |-> << >>, reads |-> << >>, exc |-> "none"])

\* ---------------------------------------- bench_accumulate.py: the summary

\* sorted(data), by insertion.
RECURSIVE InsertSorted(_, _)
InsertSorted(sorted, q) ==
  IF sorted = << >> THEN << q >>
  ELSE IF RatLe(q, Head(sorted)) THEN << q >> \o sorted
       ELSE << Head(sorted) >> \o InsertSorted(Tail(sorted), q)

RECURSIVE Sorted(_)
Sorted(data) == IF data = << >> THEN << >> ELSE InsertSorted(Sorted(Tail(data)), Head(data))

\* statistics.median(data): StatisticsError on no data, the middle value of
\* the sorted data, or the mean of the two middle values.
median(data) ==
  LET n == Len(data)
      s == Sorted(data)
      h == n \div 2
  IN IF n = 0 THEN [exc |-> "StatisticsError"]
     ELSE IF n % 2 = 1 THEN [exc |-> "none", v |-> s[h + 1]]
     ELSE [exc |-> "none",
           v |-> Rat(s[h][1] * s[h + 1][2] + s[h + 1][1] * s[h][2], 2 * s[h][2] * s[h + 1][2])]

\* a / b rounded to the nearest integer, ties to even.
RoundHalfEven(a, b) ==
  LET fl == a \div b
      rem == a % b
  IN IF 2 * rem < b THEN fl
     ELSE IF 2 * rem > b THEN fl + 1
     ELSE IF fl % 2 = 0 THEN fl ELSE fl + 1

\* fmt_ns(ns): the unit chosen by magnitude and the value to two decimals,
\* kept as a count of hundredths of the unit.  ns < T for an integer T is
\* decided on the integer part of ns, and ns / scale * 100 is computed as
\* ns / (scale / 100), which keeps the products small.
fmt_ns(ns) ==
  LET whole == ns[1] \div ns[2] IN
  CASE whole < 1000 -> [hundredths |-> RoundHalfEven(100 * ns[1], ns[2]), unit |-> "ns"]
    [] whole < 1000000 -> [hundredths |-> RoundHalfEven(ns[1], ns[2] * 10), unit |-> "us"]
    [] whole < 1000000000 -> [hundredths |-> RoundHalfEven(ns[1], ns[2] * 10000), unit |-> "ms"]
    [] OTHER -> [hundredths |-> RoundHalfEven(ns[1], ns[2] * 10000000), unit |-> "s"]

\* grouped[key] of main: the samples of the key's entries, concatenated in
\* the order of the accumulated list.
RECURSIVE Pooled(_, _)
Pooled(acc, key) ==
  IF acc = << >> THEN << >>
  ELSE (IF << Head(acc).group, Head(acc).n >> = key THEN Head(acc).samples_ns ELSE << >>)
       \o Pooled(Tail(acc), key)

\* key in grouped: some entry of the accumulated list has the key.
InGrouped(acc, key) == \E k \in 1..Len(acc) : << acc[k].group, acc[k].n >> = key

\* The table loop of main from cell k on: the rows printed, and the
\* exception that ended the loop, if any.
RECURSIVE TableFrom(_, _, _)
TableFrom(k, acc, out) ==
  IF k > Len(CellSeq) THEN out ELSE
  LET key == CellSeq[k] IN
  IF ~InGrouped(acc, key) THEN TableFrom(k + 1, acc, out) ELSE
  LET samples == Pooled(acc, key)
      med_ns == median(samples)
  IN IF med_ns.exc # "none" THEN [out EXCEPT !.exc = med_ns.exc]
     ELSE TableFrom(k + 1, acc,
            [out EXCEPT !.rows = Append(@, [group |-> key[1], n |-> key[2],
                                           val_str |-> fmt_ns(med_ns.v),
                                           count |-> Len(samples)])])

median_table(acc) == TableFrom(1, acc, [rows |-> << >>, exc |-> "none"])

\* ------------------------------------------ bench_bake.py: load_estimate

JStr(txt) == [j |-> "str", s |-> txt]

\* The empty dict {}.
EmptyDict == JObj(<< >>)

\* d.get(key, default): only a dict has get (AttributeError otherwise); a key
\* stored with the value null is returned as None, not as the default.
PyGet(v, key, default) ==
  IF v.j = "obj"
  THEN [exc |-> "none", v |-> IF key \in DOMAIN v.f THEN v.f[key] ELSE default]
  ELSE [exc |-> "AttributeError"]

\* float(x): a number converts, text that is not a number is a ValueError,
\* None, a list or a dict a TypeError.
PyFloat(v) ==
  CASE v.j = "num" -> [exc |-> "none", v |-> v]
    [] v.j = "str" -> [exc |-> "ValueError"]
    [] OTHER -> [exc |-> "TypeError"]

\* float(x) if x is not None else None
FloatOrNone(v) == IF v.j = "null" THEN [exc |-> "none", v |-> JNull] ELSE PyFloat(v)

Kinds == << "new", "base", "change" >>

\* str(p.relative_to(ROOT)) for p = CRITERION / group / str(n) / kind / "estimates.json"
EstimatePath(group, n, kind) == << "target/criterion", group, n, kind, "estimates.json" >>

\* The except clause of load_estimate: JSONDecodeError, KeyError, TypeError
\* and ValueError become a parse error record; anything else is raised.
EstimateCaught(exc, path) ==
  IF exc \in { "JSONDecodeError", "KeyError", "TypeError", "ValueError" }
  THEN [ret |-> "value", ok |-> FALSE, path |-> path, error |-> "parse error"]
  ELSE [ret |-> "raise", exc |-> exc]

\* mean of load_estimate after both assignments: mean.point_estimate when
\* mean is a dict, else Mean.point_estimate when Mean is a dict, else None.
MeanOf(obj) ==
  LET lower == PyGet(obj, "mean", JNull) IN
  IF lower.exc # "none" THEN lower ELSE
  LET first == IF lower.v.j = "obj" THEN PyGet(lower.v, "point_estimate", JNull)
               ELSE [exc |-> "none", v |-> JNull]
      upper == PyGet(obj, "Mean", JNull)
  IN IF first.v.j = "null" /\ upper.v.j = "obj"
     THEN PyGet(upper.v, "point_estimate", JNull)
     ELSE first

\* obj.get("mean", {}).get("confidence_interval", {}).get(bound)
BoundOf(obj, bound) ==
  LET m == PyGet(obj, "mean", EmptyDict) IN
  IF m.exc # "none" THEN m ELSE
  LET ci == PyGet(m.v, "confidence_interval", EmptyDict) IN
  IF ci.exc # "none" THEN ci ELSE PyGet(ci.v, bound, JNull)

\* The try block of load_estimate for a candidate that exists.
ParseEstimate(file, path) ==
  LET obj == json_loads(file) IN
  IF obj.exc # "none" THEN EstimateCaught(obj.exc, path) ELSE
  LET mean == MeanOf(obj.v) IN
  IF mean.exc # "none" THEN EstimateCaught(mean.exc, path) ELSE
  LET lb == BoundOf(obj.v, "lower_bound") IN
  IF lb.exc # "none" THEN EstimateCaught(lb.exc, path) ELSE
  LET ub == BoundOf(obj.v, "upper_bound") IN
  IF ub.exc # "none" THEN EstimateCaught(ub.exc, path) ELSE
  IF mean.v.j = "null"
  THEN [ret |-> "value", ok |-> FALSE, path |-> path, error |-> "missing mean.point_estimate"]
  ELSE
  LET fm == PyFloat(mean.v) IN
  IF fm.exc # "none" THEN EstimateCaught(fm.exc, path) ELSE
  LET fl == FloatOrNone(lb.v) IN
  IF fl.exc # "none" THEN EstimateCaught(fl.exc, path) ELSE
  LET fu == FloatOrNone(ub.v) IN
  IF fu.exc # "none" THEN EstimateCaught(fu.exc, path)
  ELSE [ret |-> "value", ok |-> TRUE, path |-> path, mean |-> fm.v, lb |-> fl.v, ub |-> fu.v]

\* for kind in ("new", "base", "change") from kind k on: the first candidate
\* that exists decides the result; none existing gives not found.
RECURSIVE LoadFrom(_, _, _, _)
LoadFrom(k, group, n, cand) ==
  IF k > Len(Kinds)
  THEN [ret |-> "value", ok |-> FALSE, path |-> EstimatePath(group, n, "new"),
        error |-> "not found (tried new/base/change)"]
  ELSE IF cand[Kinds[k]].t # "absent"
       THEN ParseEstimate(cand[Kinds[k]], EstimatePath(group, n, Kinds[k]))
       ELSE LoadFrom(k + 1, group, n, cand)

\* load_estimate(group, n) over the three candidate files cand of the cell.
load_estimate(group, n, cand) == LoadFrom(1, group, n, cand)

\* ---------------------------------------------- bench_bake.py: bake_html

\* bake_cell without the else branch: a cell that failed is dropped.
bake_cell_DropsFailure(lists, key, n, r) ==
  IF r.ok
  THEN [lists EXCEPT !.results =
          Append(@, [group |-> key, n |-> n, mean |-> r.mean, lb |-> r.lb, ub |-> r.ub])]
  ELSE lists

\* The body of the cell loop of bake_html after load_estimate returned r.
bake_cell(lists, key, n, r) ==
  IF r.ok
  THEN [lists EXCEPT !.results =
          Append(@, [group |-> key, n |-> n, mean |-> r.mean, lb |-> r.lb, ub |-> r.ub])]
  ELSE [lists EXCEPT !.missing =
          Append(@, [group |-> key, n |-> n, path |-> r.path, error |-> r.error])]

\* Text is a sequence of pieces: the marker "<script>\n      const GROUPS = [",
\* the closing "</body>", the inline script, and other text ("a", "b").  Neither
\* the marker nor "</body>" can overlap itself or the other.
Piece(k) == [k |-> k]

Marker == Piece("marker")

Body == Piece("</body>")

\* build_inline_script(results, missing): one <script> element that assigns
\* the two serialized lists.
build_inline_script(results, missing) == [k |-> "inline", data |-> results, missing |-> missing]

\* marker in html
Contains(html, piece) == \E k \in 1..Len(html) : html[k] = piece

\* html.replace(old, new, count): the occurrences of old replaced from the
\* left, at most count of them when count >= 0, all of them when count < 0;
\* the replacement is not searched again.
RECURSIVE Replace(_, _, _, _)
Replace(html, old, new, count) ==
  IF html = << >> \/ count = 0 THEN html
  ELSE IF Head(html) = old THEN new \o Replace(Tail(html), old, new, count - 1)
       ELSE << Head(html) >> \o Replace(Tail(html), old, new, count)

\* splice with the count of the first replace left out: the block goes
\* before every occurrence of the marker.
splice_EveryMarker(html, inject) ==
  IF Contains(html, Marker)
  THEN Replace(html, Marker, << inject, Marker >>, -1)
  ELSE Replace(html, Body, << inject, Body >>, -1)

\* html_out of bake_html.
splice(html, inject) ==
  IF Contains(html, Marker)
  THEN Replace(html, Marker, << inject, Marker >>, 1)
  ELSE Replace(html, Body, << inject, Body >>, -1)

\* ------------------------------------------- bench_accumulate.py: main

\* The raw sample files a benchmark run may leave for a cell.
Obj2(iters, times) == JsonText(JObj([iters |-> iters, times |-> times]))

SampleFiles ==
  { Garbage,                                              \* not JSON
    JsonText(JList(<< 1 >>)),                             \* JSON, not an object
    JsonText(JObj([times |-> JList(<< 5 >>)])),           \* no iters
    Obj2(JNum(3), JList(<< 5 >>)),                        \* iters is not a sequence
    Obj2(JList(<< 1 >>), JList(<< 5, 1 >>)),              \* unequal lengths
    Obj2(JList(<< 0 >>), JList(<< 5 >>)),                 \* an iteration count of 0
    Obj2(JList(<< >>), JList(<< >>)),                     \* no samples
    Obj2(JList(<< 2, 1, 3 >>), JList(<< 10, 1, 27 >>)),   \* 5, 1, 9
    Obj2(JList(<< 2 >>), JList(<< 6 >>)) }                \* 3

\* The estimates files a cell's candidate directory may hold.
MeanText(mean) == JsonText(JObj([mean |-> mean]))

PointEstimate(ci) == MeanText(JObj([point_estimate |-> JNum(7), confidence_interval |-> ci]))

EstimateFiles ==
  { Garbage,                                                       \* not JSON
    JsonText(JList(<< >>)),                                        \* JSON, not an object
    JsonText(EmptyDict),                                           \* no mean
    MeanText(JNum(5)),                                             \* mean is a number
    MeanText(JNull),                                               \* mean is null
    MeanText(EmptyDict),                                           \* no point_estimate
    MeanText(JObj([point_estimate |-> JNum(7)])),                  \* no confidence_interval
    MeanText(JObj([point_estimate |-> JStr("n/a")])),              \* text for the estimate
    JsonText(JObj([Mean |-> JObj([point_estimate |-> JNum(7)])])), \* the capitalised key
    PointEstimate(JNull),                                          \* confidence_interval: null
    PointEstimate(JNum(3)),                                        \* ... a number
    PointEstimate(EmptyDict),                                      \* ... without bounds
    PointEstimate(JObj([lower_bound |-> JNum(6)])),                \* ... lower bound only
    PointEstimate(JObj([upper_bound |-> JNum(8)])),                \* ... upper bound only
    PointEstimate(JObj([lower_bound |-> JNum(6), upper_bound |-> JNull])),
    PointEstimate(JObj([lower_bound |-> JStr("n/a"), upper_bound |-> JNum(8)])),
    PointEstimate(JObj([lower_bound |-> JNum(6), upper_bound |-> JNum(8)])) }

\* The estimates files drawn for a whole bake: one of each outcome.
BakeFiles ==
  { Garbage,
    JsonText(JList(<< >>)),
    MeanText(EmptyDict),
    MeanText(JObj([point_estimate |-> JNum(7)])),
    PointEstimate(JObj([lower_bound |-> JNum(6)])),
    PointEstimate(JObj([lower_bound |-> JNum(6), upper_bound |-> JNum(8)])) }

NoCandidates == [kind \in { "new", "base", "change" } |-> Absent]

VARIABLES
  \* scripts/bench_accumulate.py
  files,        \* target/criterion/<group>/<n>/new/sample.json: body, and the run that wrote it
  written,      \* raw sample files written by the runs of this session
  pc,           \* where main is: loop, running, extract, table, done, exited, crashed
  i,            \* the run index of the for loop
  accumulated,  \* the list accumulated
  stderr,       \* the diagnostics printed to sys.stderr
  reads,        \* the raw files extract_samples has looked at: run, cell, body
  invoked,      \* the run indexes run_bench was called for, in order
  outJson,      \* docs/benchmarks/data-raw-accumulated.json
  stdout,       \* the rows of the median table printed
  exitStatus,   \* the exit status of the process, -1 while it runs
  raised,       \* the exception that ended the process, and where it was raised
  \* scripts/bench_bake.py, one cell: load_estimate and the loop body
  cand,         \* the cell's new, base and change estimates.json
  lcell,        \* the cell
  loaded,       \* what load_estimate returned or raised; pending before the call
  lists,        \* results and missing after the loop body
  \* scripts/bench_bake.py, the splice of bake_html
  thtml,        \* html, the text of the template
  tinject,      \* inject, the inline script
  tout,         \* html_out; pending before the splice
  \* scripts/bench_bake.py: main and bake_html
  est,          \* target/criterion/<group>/<n>/<kind>/estimates.json
  fsb,          \* the template and the files --out may name
  outPath,      \* out_path
  bpc,          \* where the bake is: main, cells, spliced, written, exited, crashed
  bk,           \* the position of the cell loop in the enumeration
  blists,       \* results and missing
  html_out,     \* html_out
  bexit,        \* the exit status of the process, -1 while it runs
  braised,      \* the exception that ended the process
  before,       \* the bakes run before this one, what the last of them left at out_path,
                \* and the template the first of them found
  \* scripts/bench_report_local.py
  rfiles,       \* target/criterion/<group>/<n>/{new,base}/sample.json
  rpc,          \* start, done or crashed
  rreads,       \* the raw files main has looked at: cell, body
  rstderr,      \* the diagnostics printed to sys.stderr
  rstdout,      \* the rows of the table printed
  rraised       \* the exception that ended the process

accVars == << files, written, pc, i, accumulated, stderr, reads, invoked, outJson,
              stdout, exitStatus, raised >>

loadVars == << cand, lcell, loaded, lists >>

spliceVars == << thtml, tinject, tout >>

bakeVars == << est, fsb, outPath, bpc, bk, blists, html_out, bexit, braised, before >>

reportVars == << rfiles, rpc, rreads, rstderr, rstdout, rraised >>

vars == << accVars, loadVars, spliceVars, bakeVars, reportVars >>

NoException == [exc |-> "none", site |-> "none"]

EmptyLists == [results |-> << >>, missing |-> << >>]

\* The variables of a program that is not running.
AccIdle ==
  /\ files = << >>
  /\ written = 0
  /\ pc = "idle"
  /\ i = 0
  /\ accumulated = << >>
  /\ stderr = << >>
  /\ reads = << >>
  /\ invoked = << >>
  /\ outJson = [written |-> FALSE, data |-> << >>]
  /\ stdout = << >>
  /\ exitStatus = -1
  /\ raised = NoException

LoadIdle ==
  /\ cand = NoCandidates
  /\ lcell = << >>
  /\ loaded = [ret |-> "idle"]
  /\ lists = EmptyLists

SpliceIdle ==
  /\ thtml = << >>
  /\ tinject = << >>
  /\ tout = [state |-> "idle"]

BakeIdle ==
  /\ est = << >>
  /\ fsb = << >>
  /\ outPath = ""
  /\ bpc = "idle"
  /\ bk = 0
  /\ blists = EmptyLists
  /\ html_out = << >>
  /\ bexit = -1
  /\ braised = "none"
  /\ before = [n |-> 0, out |-> Absent, tpl |-> Absent]

ReportIdle ==
  /\ rfiles = << >>
  /\ rpc = "idle"
  /\ rreads = << >>
  /\ rstderr = << >>
  /\ rstdout = << >>
  /\ rraised = "none"

\* ------------------------------------------- bench_accumulate.py: main

Init ==
  /\ files = [c \in Cells |-> [by |-> 0, body |-> Absent]]
  /\ written = 0
  /\ pc = "loop"
  /\ i = 1
  /\ accumulated = << >>
  /\ stderr = << >>
  /\ reads = << >>
  /\ invoked = << >>
  /\ outJson = [written |-> FALSE, data |-> << >>]
  /\ stdout = << >>
  /\ exitStatus = -1
  /\ raised = NoException
  /\ LoadIdle
  /\ SpliceIdle
  /\ BakeIdle
  /\ ReportIdle

\* for i in range(1, 11): run_bench() is called for run i.
StartRun ==
  /\ pc = "loop"
  /\ i <= Runs
  /\ pc' = "running"
  /\ invoked' = Append(invoked, i)
  /\ UNCHANGED << files, written, i, accumulated, stderr, reads, outJson, stdout,
                  exitStatus, raised, loadVars, spliceVars, bakeVars, reportVars >>

\* cargo bench exits 0, having rewritten the raw sample files of some cells
\* and left the others as they were.
RunSucceeds ==
  /\ pc = "running"
  /\ \E W \in SUBSET Cells :
       /\ Cardinality(W) <= MaxWritten - written
       /\ \E body \in [W -> SampleFiles] :
            files' = [c \in Cells |->
                        IF c \in W THEN [by |-> i, body |-> body[c]] ELSE files[c]]
       /\ written' = written + Cardinality(W)
  /\ pc' = "extract"
  /\ UNCHANGED << i, accumulated, stderr, reads, invoked, outJson, stdout,
                  exitStatus, raised, loadVars, spliceVars, bakeVars, reportVars >>

\* cargo bench exits non-zero: subprocess.run(check=True) raises
\* CalledProcessError, main prints the failure and calls sys.exit(1).
RunFails ==
  /\ pc = "running"
  /\ pc' = "exited"
  /\ exitStatus' = 1
  /\ UNCHANGED << files, written, i, accumulated, stderr, reads, invoked, outJson,
                  stdout, raised, loadVars, spliceVars, bakeVars, reportVars >>

\* run_data = extract_samples(i); accumulated.extend(run_data).  An exception
\* other than CalledProcessError is not caught by main: the interpreter
\* prints the traceback and exits with status 1.
ExtractSamples ==
  /\ pc = "extract"
  /\ LET r == extract_samples(i, files) IN
       /\ stderr' = stderr \o r.err
       /\ reads' = reads \o r.reads
       /\ IF r.exc # "none"
          THEN /\ pc' = "crashed"
               /\ exitStatus' = 1
               /\ raised' = [exc |-> r.exc, site |-> "extract_samples"]
               /\ UNCHANGED << accumulated, i >>
          ELSE /\ accumulated' = accumulated \o r.data
               /\ i' = i + 1
               /\ pc' = "loop"
               /\ UNCHANGED << exitStatus, raised >>
  /\ UNCHANGED << files, written, invoked, outJson, stdout, loadVars, spliceVars, bakeVars, reportVars >>

\* After the loop: OUT_JSON.write_text(json.dumps(accumulated)).
SaveAccumulated ==
  /\ pc = "loop"
  /\ i > Runs
  /\ outJson' = [written |-> TRUE, data |-> accumulated]
  /\ pc' = "table"
  /\ UNCHANGED << files, written, i, accumulated, stderr, reads, invoked, stdout,
                  exitStatus, raised, loadVars, spliceVars, bakeVars, reportVars >>

\* The median table; main returns and the process exits 0, unless
\* statistics.median raises.
PrintTable ==
  /\ pc = "table"
  /\ LET t == median_table(accumulated) IN
       /\ stdout' = t.rows
       /\ IF t.exc # "none"
          THEN /\ pc' = "crashed"
               /\ exitStatus' = 1
               /\ raised' = [exc |-> t.exc, site |-> "median"]
          ELSE /\ pc' = "done"
               /\ exitStatus' = 0
               /\ UNCHANGED raised
  /\ UNCHANGED << files, written, i, accumulated, stderr, reads, invoked, outJson,
                  loadVars, spliceVars, bakeVars, reportVars >>

Next ==
  \/ StartRun
  \/ RunSucceeds
  \/ RunFails
  \/ ExtractSamples
  \/ SaveAccumulated
  \/ PrintTable

Spec == Init /\ [][Next]_vars

\* The steps the interpreter takes by itself.  When cargo bench returns, and
\* whether it does, is not the program's to decide: subprocess.run is called
\* with no timeout and waits for the child as long as it runs.
MainStep ==
  \/ StartRun
  \/ ExtractSamples
  \/ SaveAccumulated
  \/ PrintTable

\* ------------------------------------------ the aggregation session: claims

\* What the specification says of a raw sample file.
Unparseable(file) == file.t = "garbage"

IsObject(file) == file.t = "json" /\ file.v.j = "obj"

\* A required field is missing: the JSON value has no iters or no times.
MissingField(file) ==
  /\ file.t = "json"
  /\ ~(IsObject(file) /\ { "iters", "times" } \subseteq DOMAIN file.v.f)

BothSequences(file) ==
  /\ IsObject(file)
  /\ { "iters", "times" } \subseteq DOMAIN file.v.f
  /\ file.v.f.iters.j = "list"
  /\ file.v.f.times.j = "list"

UnequalLength(file) == BothSequences(file) /\ Len(file.v.f.iters.e) # Len(file.v.f.times.e)

Malformed(file) == Unparseable(file) \/ MissingField(file) \/ UnequalLength(file)

DiagnosticFor(run, cell) == \E d \in 1..Len(stderr) : stderr[d].run = run /\ stderr[d].cell = cell

RecordFor(run, cell) ==
  \E a \in 1..Len(accumulated) :
    accumulated[a].run = run /\ << accumulated[a].group, accumulated[a].n >> = cell

\* C1 (as claimed): when the run executor fails, every record accumulated
\* from the earlier runs is in the accumulated dataset artifact when the
\* session exits.
C1_FlushedOnRunFailure ==
  pc = "exited" =>
    \A a \in 1..Len(accumulated) :
      outJson.written /\ a <= Len(outJson.data) /\ outJson.data[a] = accumulated[a]

\* C3 (as claimed): whatever an existing raw sample file holds,
\* extract_samples returns normally: every run whose benchmark succeeded has
\* looked at every cell, and no exception of the reader ends the session.
C3_ReaderNeverAborts ==
  /\ raised.site # "extract_samples"
  /\ \A r \in 1..Runs :
       (r < i \/ pc \in { "table", "done" }) /\ pc # "idle" =>
         \A c \in Cells : \E k \in 1..Len(reads) : reads[k].run = r /\ reads[k].cell = c

\* C4 (as claimed): a failure of run k exits non-zero with no later run
\* invoked and no cell read for run k or later; a session in which no run
\* fails invokes runs 1..Runs once each, in order, and does not exit non-zero.
C4_RunFailureIsTheOnlyAbort ==
  /\ pc = "exited" =>
       /\ exitStatus = 1
       /\ invoked = [k \in 1..i |-> k]
       /\ \A k \in 1..Len(reads) : reads[k].run < i
  /\ pc \in { "done", "crashed" } =>
       /\ invoked = [k \in 1..Runs |-> k]
       /\ exitStatus = 0

\* C6 (as claimed): a cell whose pooled samples are empty is left out of the
\* table, and the table is completed for the other cells: once the dataset
\* is saved and the table stage has run, the rows are the cells with at
\* least one pooled sample, and the session has not crashed in the table.
C6_EmptyPoolOmitted ==
  (outJson.written /\ pc \in { "done", "crashed" }) =>
    /\ raised.site # "median"
    /\ \A c \in Cells :
         (Pooled(accumulated, c) # << >>) <=>
           (\E k \in 1..Len(stdout) : << stdout[k].group, stdout[k].n >> = c)

\* The statistical median, said without sorting: for an odd count the
\* sample with at most half of the others on each side, for an even count
\* the mean of the two central samples.
Below(samples, q) == Cardinality({ j \in 1..Len(samples) : RatLt(samples[j], q) })

Above(samples, q) == Cardinality({ j \in 1..Len(samples) : RatLt(q, samples[j]) })

IsMedian(samples, v) ==
  LET n == Len(samples)
      h == n \div 2
  IN IF n % 2 = 1
     THEN \E k \in 1..n : /\ samples[k] = v
                           /\ Below(samples, v) <= h
                           /\ Above(samples, v) <= h
     ELSE \E a, b \in 1..n :
            /\ a # b
            /\ Below(samples, samples[a]) <= h - 1
            /\ Above(samples, samples[a]) <= h
            /\ Below(samples, samples[b]) <= h
            /\ Above(samples, samples[b]) <= h - 1
            /\ v = Rat(samples[a][1] * samples[b][2] + samples[b][1] * samples[a][2],
                       2 * samples[a][2] * samples[b][2])

\* The samples of the cell's records, counted record by record.
RECURSIVE ChunkCount(_, _)
ChunkCount(acc, key) ==
  IF acc = << >> THEN 0
  ELSE (IF << Head(acc).group, Head(acc).n >> = key THEN Len(Head(acc).samples_ns) ELSE 0)
       + ChunkCount(Tail(acc), key)

\* The position of a cell in the group-then-input enumeration.
CellIndex(c) == CHOOSE k \in 1..Len(CellSeq) : CellSeq[k] = c

\* Every row printed is the row of a cell with pooled samples, with their
\* median and their count, and the rows stand in the enumeration's order.
RowsAreMedians ==
  /\ \A k \in 1..Len(stdout) :
       LET c == << stdout[k].group, stdout[k].n >>
           samples == Pooled(accumulated, c)
       IN /\ c \in Cells
          /\ samples # << >>
          /\ stdout[k].count = ChunkCount(accumulated, c)
          /\ \E m \in 1..Len(samples), o \in 1..Len(samples) :
               \E v \in { samples[m],
                           Rat(samples[m][1] * samples[o][2] + samples[o][1] * samples[m][2],
                               2 * samples[m][2] * samples[o][2]) } :
                 IsMedian(samples, v) /\ stdout[k].val_str = fmt_ns(v)
  /\ \A k \in 1..(Len(stdout) - 1) :
       CellIndex(<< stdout[k].group, stdout[k].n >>)
         < CellIndex(<< stdout[k + 1].group, stdout[k + 1].n >>)

\* C13 (as claimed): once the table stage has run, every cell with at least
\* one pooled sample has its row, and every row reports the median of the
\* cell's pooled samples and the sum of the counts of its records, in
\* group-then-input order.
C13_TableReportsMedians ==
  /\ RowsAreMedians
  /\ (outJson.written /\ pc \in { "done", "crashed" }) =>
       \A c \in Cells :
         Pooled(accumulated, c) # << >> =>
           \E k \in 1..Len(stdout) : << stdout[k].group, stdout[k].n >> = c

\* C14 (as claimed): a run invocation is bounded by a time budget: while
\* cargo bench has not returned, the program has a step of its own to take,
\* giving up on the run, so that the session ends whether or not the child
\* ever returns.  (What an exit leaves in the dataset artifact is C1.)
C14_RunIsBounded == pc = "running" => ENABLED MainStep

\* C16 (as claimed): a record appended under the tag of run r is built from
\* a raw sample file that run r wrote; a file left by an earlier run and not
\* rewritten since gives no record under tag r.
C16_RecordsComeFromTheirRun ==
  [][\A a \in (Len(accumulated) + 1)..Len(accumulated') :
       LET rec == accumulated'[a] IN
       /\ rec.run = i
       /\ files[<< rec.group, rec.n >>].by = rec.run]_vars

\* --------------------------- bench_bake.py: one cell of the loop of bake_html

LoadInit ==
  /\ AccIdle
  /\ SpliceIdle
  /\ BakeIdle
  /\ ReportIdle
  /\ cand \in [{ "new", "base", "change" } -> EstimateFiles \cup { Absent }]
  /\ lcell \in Cells
  /\ loaded = [ret |-> "pending"]
  /\ lists = EmptyLists

\* r = load_estimate(key, n)
LoadEstimate ==
  /\ loaded.ret = "pending"
  /\ loaded' = load_estimate(lcell[1], lcell[2], cand)
  /\ UNCHANGED << cand, lcell, lists, accVars, spliceVars, bakeVars, reportVars >>

\* if r["ok"]: results.append(...) else: missing.append(...); an exception
\* raised by load_estimate leaves bake_html before either.
AppendCell ==
  /\ loaded.ret = "value"
  /\ lists = EmptyLists
  /\ lists' = bake_cell(lists, lcell[1], lcell[2], loaded)
  /\ UNCHANGED << cand, lcell, loaded, accVars, spliceVars, bakeVars, reportVars >>

LoadNext ==
  \/ LoadEstimate
  \/ AppendCell

LoadSpec == LoadInit /\ [][LoadNext]_vars

\* ------------------------------------------------- load_estimate: claims

\* What the specification says of an estimates file.
Parseable(file) == file.t = "json"

\* The candidate the cell is located at: the first kind whose file exists.
Located(k) ==
  /\ cand[Kinds[k]] # Absent
  /\ \A j \in 1..(k - 1) : cand[Kinds[j]] = Absent

\* The file is a JSON object whose mean (or Mean) object holds a number as
\* point_estimate: the primary point estimate, and the key that carries it.
EstimateKey(file) ==
  IF /\ "mean" \in DOMAIN file.v.f
     /\ file.v.f.mean.j = "obj"
     /\ "point_estimate" \in DOMAIN file.v.f.mean.f
  THEN "mean" ELSE "Mean"

CarriesEstimate(file) ==
  /\ file.t = "json"
  /\ file.v.j = "obj"
  /\ EstimateKey(file) \in DOMAIN file.v.f
  /\ file.v.f[EstimateKey(file)].j = "obj"
  /\ "point_estimate" \in DOMAIN file.v.f[EstimateKey(file)].f
  /\ file.v.f[EstimateKey(file)].f.point_estimate.j = "num"

\* The bound of the file, null when it is not there.
BoundOrNull(file, b) ==
  IF /\ "mean" \in DOMAIN file.v.f
     /\ file.v.f.mean.j = "obj"
     /\ "confidence_interval" \in DOMAIN file.v.f.mean.f
     /\ file.v.f.mean.f.confidence_interval.j = "obj"
     /\ b \in DOMAIN file.v.f.mean.f.confidence_interval.f
  THEN file.v.f.mean.f.confidence_interval.f[b]
  ELSE JNull

\* C7 (as claimed): the cell is resolved from the first candidate, in the
\* order new, base, change, that exists and is parseable: the record
\* returned names that candidate's path.
C7_FirstParseableCandidate ==
  loaded.ret = "value" =>
    \A k \in 1..Len(Kinds) :
      (Parseable(cand[Kinds[k]]) /\ \A j \in 1..(k - 1) : ~Parseable(cand[Kinds[j]]))
        => loaded.path = EstimatePath(lcell[1], lcell[2], Kinds[k])

\* C8 (as claimed): load_estimate never raises; whatever the located file
\* holds, it returns a record, and a record with ok false carries the path
\* attempted and one of the three reasons.
C8_NeverRaises ==
  loaded.ret # "pending" =>
    /\ loaded.ret = "value"
    /\ ~loaded.ok =>
         /\ loaded.error \in { "not found (tried new/base/change)", "parse error",
                               "missing mean.point_estimate" }
         /\ \E k \in 1..Len(Kinds) : loaded.path = EstimatePath(lcell[1], lcell[2], Kinds[k])

\* C9 (as claimed): when the located file is parseable and carries a primary point
\* estimate, with the confidence interval and each bound there or not,
\* load_estimate returns ok true with the estimate, a bound that is not
\* there is null, and the loop body puts the cell in results, not in missing.
C9_BoundsAreOptional ==
  \A k \in 1..Len(Kinds) :
    LET file == cand[Kinds[k]] IN
    (Located(k) /\ CarriesEstimate(file)) =>
      /\ loaded.ret # "pending" =>
           /\ loaded.ret = "value"
           /\ loaded.ok
           /\ loaded.path = EstimatePath(lcell[1], lcell[2], Kinds[k])
           /\ loaded.mean = file.v.f[EstimateKey(file)].f.point_estimate
           /\ loaded.lb = BoundOrNull(file, "lower_bound")
           /\ loaded.ub = BoundOrNull(file, "upper_bound")
      /\ lists # EmptyLists =>
           /\ lists.missing = << >>
           /\ Len(lists.results) = 1
           /\ lists.results[1].group = lcell[1]
           /\ lists.results[1].n = lcell[2]
           /\ lists.results[1].lb = BoundOrNull(file, "lower_bound")
           /\ lists.results[1].ub = BoundOrNull(file, "upper_bound")

\* ------------------------------------- bench_bake.py: the splice of bake_html

OneResult == [group |-> GROUPS[1], n |-> INPUTS[1], mean |-> JNum(7), lb |-> JNull, ub |-> JNull]

\* The inline scripts a bake may build.
Blocks == { build_inline_script(<< >>, << >>), build_inline_script(<< OneResult >>, << >>) }

\* The pieces a template is made of; the last is the inline script of an
\* earlier bake.
Pieces == { Piece("a"), Piece("b"), Marker, Body, build_inline_script(<< >>, << >>) }

Templates == UNION { [1..n -> Pieces] : n \in 0..MaxTplLen }

SpliceInit ==
  /\ AccIdle
  /\ LoadIdle
  /\ BakeIdle
  /\ ReportIdle
  /\ thtml \in Templates
  /\ tinject \in Blocks
  /\ tout = [state |-> "pending"]

\* html = TEMPLATE.read_text(); ...; html_out = html.replace(...)
SpliceTemplate ==
  /\ tout.state = "pending"
  /\ tout' = [state |-> "done", html |-> splice(thtml, tinject)]
  /\ UNCHANGED << thtml, tinject, accVars, loadVars, bakeVars, reportVars >>

SpliceNext == SpliceTemplate

SpliceSpec == SpliceInit /\ [][SpliceNext]_vars

\* ----------------------------------------------------- the splice: claims

\* The position of the first occurrence of piece in html.
FirstIndex(html, piece) ==
  CHOOSE k \in 1..Len(html) : html[k] = piece /\ \A j \in 1..(k - 1) : html[j] # piece

Count(html, piece) == Cardinality({ k \in 1..Len(html) : html[k] = piece })

\* C10: when the template holds the marker, the artifact is the template
\* with the inline script inserted once, immediately before the first
\* marker: the text before and after it is the template's, unchanged.
C10_InsertedBeforeFirstMarker ==
  (tout.state = "done" /\ Contains(thtml, Marker)) =>
    LET p == FirstIndex(thtml, Marker) IN
    /\ Len(tout.html) = Len(thtml) + 1
    /\ tout.html[p] = tinject
    /\ tout.html[p + 1] = Marker
    /\ \A k \in 1..Len(thtml) : tout.html[IF k < p THEN k ELSE k + 1] = thtml[k]
    /\ Count(tout.html, tinject) = Count(thtml, tinject) + 1
    /\ \E b \in 1..Len(tout.html) :
         tout.html[b] = tinject /\ b < FirstIndex(tout.html, Marker)

\* The splice has run on a template that holds the marker twice, after
\* other text.
C10_Witness ==
  /\ tout.state = "done"
  /\ Count(thtml, Marker) = 2
  /\ FirstIndex(thtml, Marker) > 1

\* html with the piece at position b taken out.
Without(html, b) == [k \in 1..(Len(html) - 1) |-> html[IF k < b THEN k ELSE k + 1]]

\* C11 (as claimed): when the template does not hold the marker, however
\* many times it holds "</body>", the artifact is the template with the
\* inline script inserted exactly once, and where the template holds
\* "</body>" the script stands immediately before one.
C11_FallbackInsertsOnce ==
  (tout.state = "done" /\ ~Contains(thtml, Marker)) =>
    /\ Count(tout.html, tinject) = Count(thtml, tinject) + 1
    /\ \E b \in 1..Len(tout.html) :
         /\ tout.html[b] = tinject
         /\ Without(tout.html, b) = thtml
         /\ Contains(thtml, Body) => (b < Len(tout.html) /\ tout.html[b + 1] = Body)

\* ------------------------------------- bench_bake.py: main and bake_html

TEMPLATE == "docs/benchmarks/index.html"

DEFAULT_OUT == "docs/benchmarks/report-inline.html"

\* An absolute --out that is not under ROOT.
OutsideRoot == "/tmp/report.html"

\* The paths --out may name: the default, the template itself, a path
\* outside the repository.
OutPaths == { DEFAULT_OUT, TEMPLATE, OutsideRoot }

TextFile(html) == [t |-> "text", html |-> html]

\* The templates a whole bake is run on: with the marker, with </body> and
\* no marker, with neither, with </body> twice.
BakeTemplates ==
  { << Piece("a"), Marker, Piece("b"), Body >>,
    << Piece("a"), Body >>,
    << Piece("a") >>,
    << Body, Piece("a"), Body >> }

\* What the path of --out holds before the bake: nothing, or the report of
\* an earlier day.
StaleReports == { Absent, TextFile(<< Piece("b") >>) }

KindSet == { Kinds[k] : k \in 1..Len(Kinds) }

\* The trees of estimates files with at most MaxEstimates files.
EstimateTrees ==
  { [c \in Cells |-> [kind \in KindSet |->
       IF << c, kind >> \in DOMAIN f THEN f[<< c, kind >>] ELSE Absent]] :
    f \in UNION { [S -> BakeFiles] :
                  S \in { T \in SUBSET (Cells \X KindSet) : Cardinality(T) <= MaxEstimates } } }

BakeInit ==
  /\ AccIdle
  /\ LoadIdle
  /\ SpliceIdle
  /\ ReportIdle
  /\ est \in EstimateTrees
  /\ outPath \in OutPaths
  /\ \E tpl \in { TextFile(h) : h \in BakeTemplates } \cup { Absent }, old \in StaleReports :
       /\ fsb = [path \in OutPaths |-> IF path = TEMPLATE THEN tpl
                                       ELSE IF path = outPath THEN old ELSE Absent]
       /\ before = [n |-> 0, out |-> Absent, tpl |-> tpl]
  /\ bpc = "main"
  /\ bk = 0
  /\ blists = EmptyLists
  /\ html_out = << >>
  /\ bexit = -1
  /\ braised = "none"

\* TemplateMissing with the template looked for after the write: an artifact
\* with no template in it is left at out_path before the exit.
TemplateMissing_AfterWrite ==
  /\ bpc = "main"
  /\ fsb[TEMPLATE] = Absent
  /\ fsb' = [fsb EXCEPT ![outPath] = TextFile(<< >>)]
  /\ bpc' = "exited"
  /\ bexit' = 1
  /\ UNCHANGED << est, outPath, bk, blists, html_out, braised, before,
                  accVars, loadVars, spliceVars, reportVars >>

\* main makes the parent directory of out_path and calls bake_html, which
\* finds no template: sys.exit("Template not found: ...") exits with status 1.
TemplateMissing ==
  /\ bpc = "main"
  /\ fsb[TEMPLATE] = Absent
  /\ bpc' = "exited"
  /\ bexit' = 1
  /\ UNCHANGED << est, fsb, outPath, bk, blists, html_out, braised, before,
                  accVars, loadVars, spliceVars, reportVars >>

\* The template exists: results = [], missing = [], and the cell loop starts.
TemplateFound ==
  /\ bpc = "main"
  /\ fsb[TEMPLATE] # Absent
  /\ bpc' = "cells"
  /\ bk' = 1
  /\ blists' = EmptyLists
  /\ UNCHANGED << est, fsb, outPath, html_out, bexit, braised, before,
                  accVars, loadVars, spliceVars, reportVars >>

\* One pass of the cell loop: r = load_estimate(key, n), then the append.
\* An exception of load_estimate is caught nowhere: traceback, status 1.
BakeCell ==
  /\ bpc = "cells"
  /\ bk <= Len(CellSeq)
  /\ LET key == CellSeq[bk][1]
         n == CellSeq[bk][2]
         r == load_estimate(key, n, est[CellSeq[bk]])
     IN IF r.ret = "raise"
        THEN /\ bpc' = "crashed"
             /\ bexit' = 1
             /\ braised' = r.exc
             /\ UNCHANGED << bk, blists >>
        ELSE /\ blists' = bake_cell(blists, key, n, r)
             /\ bk' = bk + 1
             /\ UNCHANGED << bpc, bexit, braised >>
  /\ UNCHANGED << est, fsb, outPath, html_out, before,
                  accVars, loadVars, spliceVars, reportVars >>

\* After the loop: html = TEMPLATE.read_text(), inject, html_out.
SpliceReport ==
  /\ bpc = "cells"
  /\ bk > Len(CellSeq)
  /\ html_out' = splice(fsb[TEMPLATE].html, build_inline_script(blists.results, blists.missing))
  /\ bpc' = "spliced"
  /\ UNCHANGED << est, fsb, outPath, bk, blists, bexit, braised, before,
                  accVars, loadVars, spliceVars, reportVars >>

\* out_path.write_text(html_out); rel = out_path.relative_to(ROOT), a
\* ValueError for a path outside ROOT; the print; main returns.
WriteReport ==
  /\ bpc = "spliced"
  /\ fsb' = [fsb EXCEPT ![outPath] = TextFile(html_out)]
  /\ IF outPath = OutsideRoot
     THEN /\ bpc' = "crashed"
          /\ bexit' = 1
          /\ braised' = "ValueError"
     ELSE /\ bpc' = "written"
          /\ bexit' = 0
          /\ UNCHANGED braised
  /\ UNCHANGED << est, outPath, bk, blists, html_out, before,
                  accVars, loadVars, spliceVars, reportVars >>

BakeNext ==
  \/ TemplateMissing
  \/ TemplateFound
  \/ BakeCell
  \/ SpliceReport
  \/ WriteReport

BakeSpec == BakeInit /\ [][BakeNext]_vars

\* The bakes in which only the new candidate of the first cell may hold a
\* file; the process keeps running until it exits.
BakeOrderInit ==
  /\ BakeInit
  /\ \A c \in Cells, kind \in KindSet :
       (c # CellSeq[1] \/ kind # "new") => est[c][kind] = Absent

BakeOrderSpec == BakeOrderInit /\ [][BakeNext]_vars /\ WF_vars(BakeNext)

\* The process has ended and the same command line is run again: main
\* starts over on the files the bake before it left.
Rebake ==
  /\ bpc \in { "written", "crashed", "exited" }
  /\ before.n + 1 < MaxBakes
  /\ before' = [before EXCEPT !.n = @ + 1, !.out = fsb[outPath]]
  /\ bpc' = "main"
  /\ bk' = 0
  /\ blists' = EmptyLists
  /\ html_out' = << >>
  /\ bexit' = -1
  /\ braised' = "none"
  /\ UNCHANGED << est, fsb, outPath, accVars, loadVars, spliceVars, reportVars >>

RebakeNext ==
  \/ BakeNext
  \/ Rebake

RebakeSpec == BakeOrderInit /\ [][RebakeNext]_vars

\* ------------------------------------------------------- the bake: claims

InResults(c) == Cardinality({ k \in 1..Len(blists.results) :
                                << blists.results[k].group, blists.results[k].n >> = c })

InMissing(c) == Cardinality({ k \in 1..Len(blists.missing) :
                                << blists.missing[k].group, blists.missing[k].n >> = c })

\* C2: once the cell loop of bake_html has finished, every cell of the
\* enumeration is in results or in missing, once, and in no case in both.
C2_ResultsAndMissingPartition ==
  (bpc \in { "spliced", "written" } \/ (bpc = "cells" /\ bk > Len(CellSeq))
     \/ (bpc = "crashed" /\ braised = "ValueError")) =>
    \A c \in Cells : InResults(c) + InMissing(c) = 1

\* The loop has finished with a cell in each list.
C2_Witness ==
  /\ bpc = "spliced"
  /\ blists.results # << >>
  /\ blists.missing # << >>

\* C12: with no template the bake changes no file and ends exited with
\* status 1; a bake goes from the template check to the cell loop, resolves
\* every cell, splices, and writes once: the only change of a file is the
\* write of html_out to out_path after the splice, and a bake that ends
\* with status 0 has written.
C12_StepOrder ==
  /\ [](fsb[TEMPLATE] = Absent => bpc \in { "main", "exited" })
  /\ [](bpc = "exited" => (bexit = 1 /\ fsb[TEMPLATE] = Absent))
  /\ [](bexit = 0 => (bpc = "written" /\ fsb[outPath] = TextFile(html_out)))
  /\ [][fsb[TEMPLATE] = Absent => fsb' = fsb]_vars
  /\ [][bpc' # bpc =>
         << bpc, bpc' >> \in { << "main", "exited" >>, << "main", "cells" >>,
                               << "cells", "crashed" >>, << "cells", "spliced" >>,
                               << "spliced", "written" >>, << "spliced", "crashed" >> }]_vars
  /\ [][bpc' = "spliced" =>
         /\ bk > Len(CellSeq)
         /\ \A c \in Cells : InResults(c) + InMissing(c) = 1
         /\ html_out' = splice(fsb[TEMPLATE].html,
                               build_inline_script(blists.results, blists.missing))]_vars
  /\ [][fsb' # fsb =>
         /\ bpc = "spliced"
         /\ bpc' \in { "written", "crashed" }
         /\ fsb' = [fsb EXCEPT ![outPath] = TextFile(html_out)]]_vars
  /\ (fsb[TEMPLATE] = Absent ~> (bpc = "exited" /\ bexit = 1))
  /\ ((bpc = "cells" /\ braised = "none") ~> bpc \in { "written", "crashed" })

\* The bake found no template where an earlier report stands at out_path,
\* and has exited.
C12_Witness ==
  /\ bpc = "exited"
  /\ bexit = 1
  /\ fsb[TEMPLATE] = Absent
  /\ fsb[outPath] \in StaleReports \ { Absent }

\* ------------------------------------------ bench_report_local.py: main

\* The raw sample files bench_report_local is run on.
ReportFiles ==
  { Garbage,
    JsonText(JList(<< 1 >>)),
    JsonText(JObj([times |-> JList(<< 5 >>)])),
    Obj2(JList(<< 1 >>), JList(<< 5, 1 >>)),
    Obj2(JList(<< >>), JList(<< >>)),
    Obj2(JList(<< 2, 1, 3 >>), JList(<< 10, 1, 27 >>)) }

\* The trees of raw sample files, new and base, with at most MaxWritten files.
ReportTrees ==
  { [c \in Cells |-> [kind \in { "new", "base" } |->
       IF << c, kind >> \in DOMAIN f THEN f[<< c, kind >>] ELSE Absent]] :
    f \in UNION { [S -> ReportFiles] :
                  S \in { T \in SUBSET (Cells \X { "new", "base" }) :
                          Cardinality(T) <= MaxWritten } } }

\* path of main: new/sample.json, or base/sample.json when new does not exist.
ReportPath(tree) == IF tree["new"] # Absent THEN tree["new"] ELSE tree["base"]

\* The loop of main from cell k on; its try block is that of extract_samples
\* (the same statements and except clauses, and one for OSError, which no
\* file of the model raises), then a row unless there are no samples.
RECURSIVE ReportFrom(_, _, _)
ReportFrom(k, fs, out) ==
  IF k > Len(CellSeq) THEN out ELSE
  LET cell == CellSeq[k]
      file == ReportPath(fs[cell])
      r == ReadCell(file)
      seen == Append(out.reads, [cell |-> cell, file |-> file])
  IN CASE r.o = "skip" -> ReportFrom(k + 1, fs, [out EXCEPT !.reads = seen])
       [] r.o = "diag" ->
            ReportFrom(k + 1, fs,
              [out EXCEPT !.reads = seen, !.err = Append(@, [cell |-> cell, msg |-> r.msg])])
       [] r.o = "record" ->
            IF r.samples = << >>
            THEN ReportFrom(k + 1, fs, [out EXCEPT !.reads = seen])
            ELSE ReportFrom(k + 1, fs,
                   [out EXCEPT !.reads = seen,
                               !.rows = Append(@, [group |-> cell[1], n |-> cell[2],
                                                   val_str |-> fmt_ns(median(r.samples).v),
                                                   count |-> Len(r.samples)])])
       [] OTHER -> [out EXCEPT !.reads = seen, !.exc = r.exc]

report_main(fs) ==
  ReportFrom(1, fs, [rows |-> << >>, err |-> << >>, reads |-> << >>, exc |-> "none"])

ReportInit ==
  /\ AccIdle
  /\ LoadIdle
  /\ SpliceIdle
  /\ BakeIdle
  /\ rfiles \in ReportTrees
  /\ rpc = "start"
  /\ rreads = << >>
  /\ rstderr = << >>
  /\ rstdout = << >>
  /\ rraised = "none"

\* python3 scripts/bench_report_local.py
ReportLocal ==
  /\ rpc = "start"
  /\ LET r == report_main(rfiles) IN
       /\ rreads' = r.reads
       /\ rstderr' = r.err
       /\ rstdout' = r.rows
       /\ rraised' = r.exc
       /\ rpc' = IF r.exc = "none" THEN "done" ELSE "crashed"
  /\ UNCHANGED << rfiles, accVars, loadVars, spliceVars, bakeVars >>

\* The two programs that read raw sample files: an aggregation session, or
\* a run of bench_report_local.
ReaderInit == Init \/ ReportInit

ReaderNext ==
  \/ StartRun
  \/ RunSucceeds
  \/ RunFails
  \/ ExtractSamples
  \/ SaveAccumulated
  \/ PrintTable
  \/ ReportLocal

ReaderSpec == ReaderInit /\ [][ReaderNext]_vars

\* --------------------------------------------------- the reader: claims

ReportDiagnosticFor(cell) == \E d \in 1..Len(rstderr) : rstderr[d].cell = cell

ReportRowFor(cell) == \E k \in 1..Len(rstdout) : << rstdout[k].group, rstdout[k].n >> = cell

\* C5 (as claimed): for every cell a reader looked at, a diagnostic was
\* printed exactly when the file exists and is unparseable, lacks a required
\* field or has times and iters of unequal length; an absent or malformed
\* file leaves no record for that run (no row, in bench_report_local); every
\* record pairs all of times with all of iters.
C5_DiagnosticIffMalformed ==
  /\ \A k \in 1..Len(reads) :
       LET r == reads[k] IN
       /\ DiagnosticFor(r.run, r.cell) <=> Malformed(r.file)
       /\ r.file = Absent => ~DiagnosticFor(r.run, r.cell)
       /\ (r.file = Absent \/ Malformed(r.file)) => ~RecordFor(r.run, r.cell)
  /\ \A a \in 1..Len(accumulated) :
       \E k \in 1..Len(reads) :
         /\ reads[k].run = accumulated[a].run
         /\ reads[k].cell = << accumulated[a].group, accumulated[a].n >>
         /\ BothSequences(reads[k].file)
         /\ Len(accumulated[a].samples_ns) = Len(reads[k].file.v.f.times.e)
         /\ Len(accumulated[a].samples_ns) = Len(reads[k].file.v.f.iters.e)
  /\ \A k \in 1..Len(rreads) :
       LET r == rreads[k] IN
       /\ ReportDiagnosticFor(r.cell) <=> Malformed(r.file)
       /\ r.file = Absent => ~ReportDiagnosticFor(r.cell)
       /\ (r.file = Absent \/ Malformed(r.file)) => ~ReportRowFor(r.cell)
       /\ ReportRowFor(r.cell) =>
            /\ BothSequences(r.file)
            /\ Len(r.file.v.f.times.e) = Len(r.file.v.f.iters.e)

\* The inline data blocks in an artifact.
InlineBlocks(file) == Cardinality({ k \in 1..Len(file.html) : file.html[k].k = "inline" })

\* C15 (as claimed): when the bake has been run again on the same estimate
\* files, whatever --out names, out_path holds what the bake before left
\* there, the template is the one the first bake found, and a report that
\* was written holds exactly one inline data block.
C15_RebakeIsIdempotent ==
  (before.n >= 1 /\ bpc \in { "written", "crashed", "exited" }) =>
    /\ fsb[outPath] = before.out
    /\ fsb[TEMPLATE] = before.tpl
    /\ bpc = "written" => InlineBlocks(fsb[outPath]) = 1

====
